---------------------------- MODULE Spec2Model ----------------------------
(***************************************************************************)
(* Prior-authorization claims dashboard: the document-set merge and        *)
(* status-derivation engine (pdfExtractor.ts, PDFUploader.tsx) and the     *)
(* reviewer action processor (ActionModal.tsx, Index.tsx).                 *)
(*                                                                         *)
(* Representation.  Free text that the code trims or compares with the     *)
(* sentinel "-" (reasons, query texts, comments, item codes) is a sequence *)
(* of one-character strings, so that trim() and toUpperCase() are computed *)
(* and not assumed.  Status labels, patient names, claim ids and file      *)
(* names are plain strings.  A JavaScript undefined is the value           *)
(* undefined (string-typed fields) or undefinedText (text fields); an      *)
(* optional number is << >> (absent) or <<n>>.  Dates are integers: the    *)
(* clock `now` stands for new Date().toISOString(), a date of service is   *)
(* a date in the past.  Numbers are fixed-point: the integer n stands for  *)
(* n / 10^FractionDigits, so that parseFloat keeps the fraction it reads.  *)
(***************************************************************************)
EXTENDS Integers, Sequences, FiniteSets, TLC

VARIABLES
    claims,   \* the in-memory claim collection (Index: useState<Claim[]>)
    now,      \* the wall clock read by new Date()
    toast,    \* the last toast shown
    last,     \* history: the last handler run and the collection it started from
    fin,      \* inputs of a merger when it is checked on its own
    fout      \* its output

vars == <<claims, now, toast, last, fin, fout>>

\* ------------------------------------------------------------------ bounds
\* Number of handler invocations a behaviour may hold (the clock stops there).
MaxTime == 4

\* Longest document list of the claim a document set is merged into, when the
\* claim merger is checked on its own.
MaxDocs == 2

\* Longest item collection handed to the item merger when it is checked on its
\* own.
MaxItems == 2

\* Fraction digits a fixed-point number keeps (no money string of the model
\* carries more).
FractionDigits == 3

\* ------------------------------------------------------- JavaScript values
undefined == "undefined"

undefinedText == <<"undefined">>

\* Truthiness of a string-typed value: undefined and "" are falsy.
Truthy(s) == s # undefined /\ s # ""

\* Truthiness of a text value: undefined and the empty text are falsy.
TruthyText(t) == t # undefinedText /\ t # << >>

RECURSIVE trimStart(_)
trimStart(t) == IF t # << >> /\ Head(t) = " " THEN trimStart(Tail(t)) ELSE t

RECURSIVE trimEnd(_)
trimEnd(t) ==
    IF t # << >> /\ t[Len(t)] = " " THEN trimEnd(SubSeq(t, 1, Len(t) - 1)) ELSE t

\* String.prototype.trim
trim(t) == trimEnd(trimStart(t))

\* x?.trim() || ''
trimOrEmpty(t) == IF t = undefinedText THEN << >> ELSE trim(t)

\* (x ?? '').trim()
nullishTrim(t) == IF t = undefinedText THEN << >> ELSE trim(t)

toUpperCaseChar(c) ==
    CASE c = "a" -> "A"
      [] c = "b" -> "B"
      [] OTHER -> c

\* String.prototype.toUpperCase
toUpperCase(t) == [i \in 1..Len(t) |-> toUpperCaseChar(t[i])]

\* a || b on text values
OrText(a, b) == IF TruthyText(a) THEN a ELSE b

Max(a, b) == IF a >= b THEN a ELSE b

RECURSIVE SumNums(_)
SumNums(s) == IF s = << >> THEN 0 ELSE Head(s) + SumNums(Tail(s))

\* Array.prototype.reduce((sum, x) => sum + f(x), 0)
SumSeq(s, f(_)) == SumNums([i \in 1..Len(s) |-> f(s[i])])

\* Array.prototype.findIndex; 0 stands for -1
findIndex(s, p(_)) ==
    IF \E i \in 1..Len(s) : p(s[i])
    THEN CHOOSE i \in 1..Len(s) : p(s[i]) /\ \A j \in 1..(i - 1) : ~p(s[j])
    ELSE 0

\* A timeline entry {date, label, user?, comment?}
Entry(d, l, u, c) == [date |-> d, label |-> l, user |-> u, comment |-> c]

\* --------------------------------------------- pdfExtractor.ts: extraction
\* Raw money values as the extractor's JSON delivers them (typeof value).
Num(n) == [t |-> "number", v |-> n]

Str(txt) == [t |-> "string", v |-> txt]

Undef == [t |-> "undefined", v |-> 0]

Digits == {"0", "1", "2", "3", "4", "5", "6", "7", "8", "9"}

DigitVal(c) ==
    CASE c = "0" -> 0 [] c = "1" -> 1 [] c = "2" -> 2 [] c = "3" -> 3
      [] c = "4" -> 4 [] c = "5" -> 5 [] c = "6" -> 6 [] c = "7" -> 7
      [] c = "8" -> 8 [] c = "9" -> 9

\* The cleaning that keeps the digits only.
cleaned_DigitsOnly(txt) == SelectSeq(txt, LAMBDA c : c \in Digits)

\* value.replace(/[^0-9.-]/g, '')
cleaned(txt) == SelectSeq(txt, LAMBDA c : c \in Digits \cup {".", "-"})

RECURSIVE digitPrefix(_)
digitPrefix(txt) ==
    IF txt # << >> /\ Head(txt) \in Digits
    THEN <<Head(txt)>> \o digitPrefix(Tail(txt))
    ELSE << >>

RECURSIVE digitsValue(_)
digitsValue(ds) ==
    IF ds = << >> THEN 0
    ELSE digitsValue(SubSeq(ds, 1, Len(ds) - 1)) * 10 + DigitVal(ds[Len(ds)])


RECURSIVE Pow10(_)
Pow10(n) == IF n = 0 THEN 1 ELSE 10 * Pow10(n - 1)

\* The number whole.fraction, the fraction given by its digits.
Fixed(whole, fraction) ==
    LET kept == SubSeq(fraction, 1, IF Len(fraction) < FractionDigits THEN Len(fraction)
                                    ELSE FractionDigits)
    IN  whole * Pow10(FractionDigits) + digitsValue(kept) * Pow10(FractionDigits - Len(kept))

\* parseFloat on a cleaned text: optional sign, digits, optional fraction; the
\* result is << >> for NaN and <<n>> otherwise.
parseFloat(txt) ==
    LET neg == txt # << >> /\ Head(txt) = "-"
        body == IF neg THEN Tail(txt) ELSE txt
        int == digitPrefix(body)
        rest == SubSeq(body, Len(int) + 1, Len(body))
        frac == IF rest # << >> /\ Head(rest) = "." THEN digitPrefix(Tail(rest)) ELSE << >>
    IN  IF int = << >> /\ frac = << >> THEN << >>
        ELSE <<(IF neg THEN -1 ELSE 1) * Fixed(digitsValue(int), frac)>>

normalizeCurrencyValue(value) ==
    IF value.t = "number" THEN value.v
    ELSE IF value.t = "string"
         THEN LET parsed == parseFloat(trim(cleaned(value.v)))
              IN  IF parsed = << >> THEN 0 ELSE parsed[1]
         ELSE 0

\* Post-processing of the parsed JSON: queryReason taken from
\* additionalInfoRequired when it has none of its own.
postQueryReason(d) ==
    IF TruthyText(d.additionalInfoRequired) /\ TruthyText(trim(d.additionalInfoRequired))
       /\ (~TruthyText(d.queryReason) \/ ~TruthyText(trim(d.queryReason))
           \/ d.queryReason = <<"-">>)
    THEN trim(d.additionalInfoRequired)
    ELSE d.queryReason

\* hasAdditionalInfo of extractDataWithOpenAI, on the data with queryReason updated.
extractHasAdditionalInfo(d) ==
    \/ (TruthyText(d.additionalInfoRequired) /\ TruthyText(trim(d.additionalInfoRequired))
        /\ d.additionalInfoRequired # <<"-">>)
    \/ (TruthyText(postQueryReason(d)) /\ TruthyText(trim(postQueryReason(d)))
        /\ postQueryReason(d) # <<"-">>)

\* Post-processing of the claim-level status.
postStatus(d) ==
    IF extractHasAdditionalInfo(d) /\ Truthy(d.status)
       /\ d.status \in {"Approved", "Partially Approved"}
    THEN "Query Raised"
    ELSE d.status

\* The priority rule with the query rule tried before the denial rule.
resolveItemStatus_QueryFirst(approvedAmt, normalizedReason, normalizedQueryReason, hasQuery) ==
    IF approvedAmt > 0
    THEN <<"Approved", << >>, << >>>>
    ELSE IF approvedAmt = 0 /\ hasQuery
         THEN <<"Query Raised", normalizedReason, normalizedQueryReason>>
         ELSE IF approvedAmt = 0 /\ TruthyText(normalizedReason)
              THEN <<"Denied", normalizedReason, normalizedQueryReason>>
              ELSE <<"Approved", << >>, << >>>>

\* The priority rule of the item status resolver: <<status, reason, queryReason>>.
resolveItemStatus(approvedAmt, normalizedReason, normalizedQueryReason, hasQuery) ==
    IF approvedAmt > 0
    THEN <<"Approved", << >>, << >>>>
    ELSE IF approvedAmt = 0 /\ TruthyText(normalizedReason)
         THEN <<"Denied", normalizedReason, normalizedQueryReason>>
         ELSE IF approvedAmt = 0 /\ hasQuery
              THEN <<"Query Raised", normalizedReason, normalizedQueryReason>>
              ELSE <<"Approved", << >>, << >>>>

\* One element of extractedData.items.map(...): d is the raw document, t the clock.
extractItem(item, d, t) ==
    LET queryReason == postQueryReason(d)
        hasClaimLevelQuery == extractHasAdditionalInfo(d)
        defaultDate == IF d.dateOfService # << >> THEN d.dateOfService[1] ELSE t
        claimLevelQueryReason ==
            OrText(trimOrEmpty(queryReason), trimOrEmpty(d.additionalInfoRequired))
        claimLevelAdditionalInfo == trimOrEmpty(d.additionalInfoRequired)
        shouldUseAdditionalInfo ==
            TruthyText(claimLevelAdditionalInfo) /\ claimLevelAdditionalInfo # <<"-">>
        itemReason == nullishTrim(item.reason)
        claimReason == nullishTrim(d.reason)
        normalizedReason ==
            IF TruthyText(itemReason) /\ itemReason # <<"-">> THEN itemReason
            ELSE IF TruthyText(claimReason) /\ claimReason # <<"-">> THEN claimReason
            ELSE IF shouldUseAdditionalInfo THEN claimLevelAdditionalInfo
            ELSE << >>
        itemQueryReason == trim(OrText(trimOrEmpty(item.queryReason), claimLevelQueryReason))
        hasItemQuery == TruthyText(itemQueryReason) /\ itemQueryReason # <<"-">>
        itemQR == nullishTrim(item.queryReason)
        normalizedQueryReason ==
            IF TruthyText(itemQR) /\ itemQR # <<"-">> THEN itemQR
            ELSE IF TruthyText(claimLevelQueryReason) /\ claimLevelQueryReason # <<"-">>
                 THEN claimLevelQueryReason
            ELSE IF shouldUseAdditionalInfo THEN claimLevelAdditionalInfo
            ELSE << >>
        normalizedAmountRaw == normalizeCurrencyValue(item.amount)
        normalizedApprovedAmount == normalizeCurrencyValue(item.approvedAmt)
        normalizedAmount ==
            IF normalizedAmountRaw > 0 THEN normalizedAmountRaw ELSE normalizedApprovedAmount
        final == resolveItemStatus(normalizedApprovedAmount, normalizedReason,
                     normalizedQueryReason,
                     hasItemQuery \/ hasClaimLevelQuery \/ shouldUseAdditionalInfo)
        finalStatus == final[1]
        finalReason == final[2]
        finalQueryReason == final[3]
    IN  [itemCode |-> item.itemCode,
         procedure |-> item.procedure,
         amount |-> normalizedAmount,
         approvedAmt |-> normalizedApprovedAmount,
         qty |-> item.qty,
         reason |-> finalReason,
         queryReason |-> finalQueryReason,
         approvalStatus |-> finalStatus,
         status |-> finalStatus,
         statusHistory |-> <<Entry(defaultDate, finalStatus, undefined, undefinedText)>>,
         reasonHistory |->
            IF TruthyText(finalReason) \/ TruthyText(finalQueryReason)
            THEN <<Entry(t, finalStatus, undefined, OrText(finalQueryReason, finalReason))>>
            ELSE << >>]

\* extractDataWithOpenAI after the model's JSON is parsed: d is the parsed JSON.
extractDataWithOpenAI(d, t) ==
    [d EXCEPT !.queryReason = postQueryReason(d),
              !.status = postStatus(d),
              !.items = [i \in 1..Len(d.items) |-> extractItem(d.items[i], d, t)]]

\* ------------------------------------------ pdfExtractor.ts: document sets
\* The last claim-document item the Map holds under the key, << >> when none.
claimMatchOf(claimItems, key) ==
    LET hits == {i \in 1..Len(claimItems) :
                    /\ TruthyText(claimItems[i].itemCode)
                    /\ toUpperCase(trim(claimItems[i].itemCode)) = key}
    IN  IF TruthyText(key) /\ hits # {}
        THEN <<claimItems[CHOOSE i \in hits : \A j \in hits : j <= i]>>
        ELSE << >>

\* The item merger looking the claim entry up under the code as written.
mergeItemsFromSources_ExactCode(claimItems, queryItems) ==
    IF Len(queryItems) > 0
    THEN [i \in 1..Len(queryItems) |->
            LET item == queryItems[i]
                claimMatch == claimMatchOf(claimItems, item.itemCode)
            IN  [item EXCEPT
                   !.amount = IF claimMatch # << >> THEN claimMatch[1].amount ELSE item.amount,
                   !.qty = IF claimMatch # << >> /\ claimMatch[1].qty # << >>
                           THEN claimMatch[1].qty
                           ELSE IF item.qty # << >> THEN item.qty ELSE <<0>>]]
    ELSE claimItems

\* mergeItemsFromSources: the query/approval items with the amount and qty of
\* the claim-document item of the same normalised code.
mergeItemsFromSources(claimItems, queryItems) ==
    IF Len(queryItems) > 0
    THEN [i \in 1..Len(queryItems) |->
            LET item == queryItems[i]
                key == IF item.itemCode = undefinedText THEN undefinedText
                       ELSE toUpperCase(trim(item.itemCode))
                claimMatch == claimMatchOf(claimItems, key)
            IN  [item EXCEPT
                   !.amount = IF claimMatch # << >> THEN claimMatch[1].amount ELSE item.amount,
                   !.qty = IF claimMatch # << >> /\ claimMatch[1].qty # << >>
                           THEN claimMatch[1].qty
                           ELSE IF item.qty # << >> THEN item.qty ELSE <<0>>]]
    ELSE claimItems

\* finalStatus of processClaimAndQueryPDFs: <<status, reason, queryReason>>.
resolveMergedItemStatus(itemApprovedAmt, finalReason, finalQueryReason, hasAdditionalInfo) ==
    IF itemApprovedAmt > 0
    THEN <<"Approved", << >>, << >>>>
    ELSE IF itemApprovedAmt = 0 /\ TruthyText(finalReason)
         THEN <<"Denied", finalReason, finalQueryReason>>
         ELSE IF itemApprovedAmt = 0 /\ TruthyText(finalQueryReason)
              THEN <<"Query Raised", finalReason, finalQueryReason>>
              ELSE IF itemApprovedAmt = 0 /\ hasAdditionalInfo
                   THEN <<"Query Raised", finalReason, finalQueryReason>>
                   ELSE <<"Approved", << >>, << >>>>

\* additionalInfoRequired applied to one merged item (the map at lines 613-714).
applyAdditionalInfo(item, queryResult, additionalInfoRequired, queryReason, t) ==
    LET itemReason == nullishTrim(item.reason)
        itemQueryReason == trim(OrText(trimOrEmpty(item.queryReason), queryReason))
        claimReason == nullishTrim(queryResult.reason)
        finalReason ==
            IF TruthyText(itemReason) /\ itemReason # <<"-">> THEN itemReason
            ELSE IF TruthyText(claimReason) /\ claimReason # <<"-">> THEN claimReason
            ELSE additionalInfoRequired
        finalQueryReason ==
            IF TruthyText(itemQueryReason) /\ itemQueryReason # <<"-">> THEN itemQueryReason
            ELSE additionalInfoRequired
        final == resolveMergedItemStatus(item.approvedAmt, finalReason, finalQueryReason, TRUE)
        finalStatus == final[1]
        finalReasonValue == final[2]
        finalQueryReasonValue == final[3]
    IN  [item EXCEPT
           !.queryReason = finalQueryReasonValue,
           !.reason = finalReasonValue,
           !.status = finalStatus,
           !.approvalStatus = finalStatus,
           !.statusHistory = Append(item.statusHistory,
                                 Entry(t, finalStatus, undefined, undefinedText)),
           !.reasonHistory =
              IF TruthyText(finalReasonValue) \/ TruthyText(finalQueryReasonValue)
              THEN Append(item.reasonHistory,
                       Entry(t, finalStatus, undefined,
                             OrText(finalQueryReasonValue, finalReasonValue)))
              ELSE item.reasonHistory]

\* A ClaimDocument record; id, size and url play no part in any merge.
Document(name, t) == [name |-> name, uploadDate |-> t]

\* The generated fallback claim id CLM-<year>-<last six digits of Date.now()>.
generatedClaimId(t) == "CLM-" \o ToString(t)

\* processClaimAndQueryPDFs after both extractions have resolved; the claim
\* document is known to carry a patient name.
processClaimAndQueryPDFs(claimResult, queryResult, claimFile, queryFile, t) ==
    LET acceptedAmt == IF queryResult.acceptedAmt # << >> THEN queryResult.acceptedAmt[1] ELSE 0
        deniedAmt == IF queryResult.deniedAmt # << >> THEN queryResult.deniedAmt[1]
                     ELSE IF claimResult.deniedAmt # << >> THEN claimResult.deniedAmt[1]
                     ELSE 0
        additionalInfoRequired == trimOrEmpty(queryResult.additionalInfoRequired)
        queryReason == OrText(trimOrEmpty(queryResult.queryReason),
                          OrText(additionalInfoRequired, trimOrEmpty(queryResult.reason)))
        hasAdditionalInfo ==
            TruthyText(additionalInfoRequired) /\ additionalInfoRequired # <<"-">>
        merged == mergeItemsFromSources(claimResult.items, queryResult.items)
        mergedItems ==
            IF hasAdditionalInfo /\ Len(merged) > 0
            THEN [i \in 1..Len(merged) |->
                    applyAdditionalInfo(merged[i], queryResult, additionalInfoRequired,
                                        queryReason, t)]
            ELSE merged
        itemSum == SumSeq(claimResult.items, LAMBDA item : item.amount)
    IN  [claimId |-> IF Truthy(claimResult.claimId) THEN claimResult.claimId
                     ELSE generatedClaimId(t),
         patientName |-> claimResult.patientName,
         dateOfService |-> IF claimResult.dateOfService # << >>
                           THEN claimResult.dateOfService[1] ELSE t,
         totalAmt |-> IF itemSum # 0 THEN itemSum
                      ELSE IF claimResult.totalAmt # << >> THEN claimResult.totalAmt[1]
                      ELSE 0,
         acceptedAmt |-> acceptedAmt,
         deniedAmt |-> deniedAmt,
         items |-> mergedItems,
         approvalStatus |-> IF Truthy(queryResult.status) THEN queryResult.status
                            ELSE IF hasAdditionalInfo THEN "Query Raised" ELSE undefined,
         approvalReason |-> queryResult.reason,
         queryReason |-> queryReason,
         documents |-> <<Document(claimFile, t), Document(queryFile, t)>>]

\* ----------------------------------------------- PDFUploader: claim merger
sameEntry(a, b) == a.date = b.date /\ a.label = b.label

\* The history merge that keeps the incoming entries only.
mergeHistory_Replace(existing, incoming) == incoming

\* [...existing, ...incoming.filter(e => !existing.some(same date and label))]
mergeHistory(existing, incoming) ==
    existing \o SelectSeq(incoming,
                    LAMBDA newEntry :
                        ~\E i \in 1..Len(existing) : sameEntry(existing[i], newEntry))

\* The item merge that keeps the items of the new document set only.
mergeItems_NewOnly(mergedItems, newItems) == newItems

\* The forEach over newClaimData.items: update by itemCode, else push.
RECURSIVE mergeItems(_, _)
mergeItems(mergedItems, newItems) ==
    IF newItems = << >> THEN mergedItems
    ELSE LET newItem == Head(newItems)
             existingItemIndex ==
                 findIndex(mergedItems, LAMBDA item : item.itemCode = newItem.itemCode)
             next ==
                 IF existingItemIndex # 0
                 THEN LET existingItem == mergedItems[existingItemIndex]
                      IN  [mergedItems EXCEPT
                             ![existingItemIndex] =
                                [newItem EXCEPT
                                   !.statusHistory =
                                      mergeHistory(existingItem.statusHistory,
                                                   newItem.statusHistory),
                                   !.reasonHistory =
                                      mergeHistory(existingItem.reasonHistory,
                                                   newItem.reasonHistory)]]
                 ELSE Append(mergedItems, newItem)
         IN  mergeItems(next, Tail(newItems))

\* The document merge with every new document appended.
mergeDocuments_AppendAll(existingDocuments, newDocuments) ==
    existingDocuments \o newDocuments

\* documents of mergeClaimData: the new documents whose name the claim does
\* not hold yet are appended.
mergeDocuments(existingDocuments, newDocuments) ==
    existingDocuments \o
    SelectSeq(newDocuments,
        LAMBDA newDoc :
            ~\E i \in 1..Len(existingDocuments) : existingDocuments[i].name = newDoc.name)

\* mergeClaimData of PDFUploader: one existing claim and the new document set.
mergeClaimData(existingClaim, newClaimData) ==
    [claimId |-> IF Truthy(newClaimData.claimId) THEN newClaimData.claimId
                 ELSE existingClaim.claimId,
     patientName |-> newClaimData.patientName,
     dateOfService |-> newClaimData.dateOfService,
     totalAmt |-> newClaimData.totalAmt,
     acceptedAmt |-> newClaimData.acceptedAmt,
     deniedAmt |-> newClaimData.deniedAmt,
     documents |-> mergeDocuments(existingClaim.documents, newClaimData.documents),
     items |-> mergeItems(existingClaim.items, newClaimData.items),
     statusHistory |-> mergeHistory(existingClaim.statusHistory, newClaimData.statusHistory),
     approvalStatus |-> IF newClaimData.approvalStatus # undefined
                        THEN newClaimData.approvalStatus
                        ELSE existingClaim.approvalStatus,
     approvalReason |-> IF newClaimData.approvalReason # undefinedText
                        THEN newClaimData.approvalReason
                        ELSE existingClaim.approvalReason,
     queryReason |-> IF TruthyText(newClaimData.queryReason) THEN newClaimData.queryReason
                     ELSE existingClaim.queryReason]

\* The document step of pdfExtractor.mergeClaimData (one document at a time):
\* the document is added unless one of its name is present.
addDocument(existingClaim, document) ==
    IF ~\E i \in 1..Len(existingClaim.documents) :
           existingClaim.documents[i].name = document.name
    THEN [existingClaim EXCEPT !.documents = Append(existingClaim.documents, document)]
    ELSE existingClaim

\* newClaimData of processFiles: the result with the seeded status history.
newClaimDataOf(result, t) ==
    [claimId |-> result.claimId,
     patientName |-> result.patientName,
     dateOfService |-> result.dateOfService,
     totalAmt |-> result.totalAmt,
     acceptedAmt |-> result.acceptedAmt,
     deniedAmt |-> result.deniedAmt,
     documents |-> result.documents,
     items |-> result.items,
     approvalStatus |-> result.approvalStatus,
     approvalReason |-> result.approvalReason,
     queryReason |-> result.queryReason,
     statusHistory |->
        <<Entry(t,
                IF Truthy(result.approvalStatus) THEN result.approvalStatus ELSE "Submitted",
                "System",
                IF TruthyText(result.approvalReason) THEN result.approvalReason
                ELSE undefinedText)>>]

\* The lookup keyed by claim id instead of patient name.
existingClaimIndexOf_ByClaimId(currentClaims, result) ==
    findIndex(currentClaims, LAMBDA c : c.claimId = result.claimId)

\* existingClaimIndex of processFiles: the claim of the same patient name
\* (exact match), 0 when there is none.
existingClaimIndexOf(currentClaims, result) ==
    findIndex(currentClaims, LAMBDA c : c.patientName = result.patientName)

\* updatedClaims of processFiles: merge into the existing claim, or append a
\* new claim.
updatedClaimsOf(currentClaims, result, t) ==
    LET newClaimData == newClaimDataOf(result, t)
        existingClaimIndex == existingClaimIndexOf(currentClaims, result)
    IN  IF existingClaimIndex # 0
        THEN [currentClaims EXCEPT
                ![existingClaimIndex] = mergeClaimData(currentClaims[existingClaimIndex],
                                                       newClaimData)]
        ELSE Append(currentClaims, newClaimData)

\* ------------------------------------------------ Index: action processor
Actions == {"approve", "query", "deny", "sendToDoctor", "sendToMedicalRecords",
            "requestDocuments"}

\* The actions ActionModal.handleSubmit refuses without a comment.
\* The comment required for query and deny only.
requiresComment_QueryDenyOnly(selectedAction) == selectedAction \in {"query", "deny"}

\* requiresComment of ActionModal.handleSubmit.
requiresComment(selectedAction) ==
    selectedAction \in {"query", "deny", "sendToDoctor", "sendToMedicalRecords",
                        "requestDocuments"}

statusLabel(action) ==
    CASE action = "approve" -> "Approved"
      [] action = "query" -> "Query Raised"
      [] action = "deny" -> "Denied"
      [] action = "sendToDoctor" -> "Sent to Doctor"
      [] action = "sendToMedicalRecords" -> "Sent to Medical Records"
      [] action = "requestDocuments" -> "Documents Requested"

reasonLabel(action) ==
    CASE action = "query" -> "Query Raised"
      [] action = "deny" -> "Denial Reason"
      [] action = "sendToDoctor" -> "Sent to Doctor"
      [] action = "sendToMedicalRecords" -> "Sent to Medical Records"
      [] OTHER -> "Documents Requested"

\* A reason entry for query and deny only.
newReasonEntryOf_QueryDenyOnly(action, comment, t) ==
    IF TruthyText(comment) /\ action \in {"query", "deny"}
    THEN <<Entry(t, reasonLabel(action), "Current User", comment)>>
    ELSE << >>

\* newReasonEntry: << >> stands for null.
newReasonEntryOf(action, comment, t) ==
    IF TruthyText(comment) /\ action # "approve"
    THEN <<Entry(t, reasonLabel(action), "Current User", comment)>>
    ELSE << >>

\* The item map with every action but approve zeroing the approved amount.
actOnItem_OthersZero(item, action, comment, itemCode, t) ==
    IF TruthyText(itemCode) /\ item.itemCode # itemCode
    THEN item
    ELSE [item EXCEPT
            !.statusHistory =
               Append(item.statusHistory,
                      Entry(t, statusLabel(action), "Current User", undefinedText)),
            !.reasonHistory = item.reasonHistory \o newReasonEntryOf(action, comment, t),
            !.approvedAmt = IF action = "approve" THEN item.amount ELSE 0]

\* The item map of handleClaimAction.
actOnItem(item, action, comment, itemCode, t) ==
    IF TruthyText(itemCode) /\ item.itemCode # itemCode
    THEN item
    ELSE [item EXCEPT
            !.statusHistory =
               Append(item.statusHistory,
                      Entry(t, statusLabel(action), "Current User", undefinedText)),
            !.reasonHistory = item.reasonHistory \o newReasonEntryOf(action, comment, t),
            !.approvedAmt = IF action = "approve" THEN item.amount
                            ELSE IF action \in {"query", "deny"} THEN 0
                            ELSE item.approvedAmt]

\* The claim map of handleClaimAction, for a claim whose claimId matches.
actOnClaim(claim, action, comment, itemCode, t) ==
    LET items == [i \in 1..Len(claim.items) |->
                     actOnItem(claim.items[i], action, comment, itemCode, t)]
        acceptedAmt == SumSeq(items, LAMBDA current : current.approvedAmt)
        totalAmt == SumSeq(items, LAMBDA current : current.amount)
    IN  [claim EXCEPT
           !.statusHistory =
              Append(claim.statusHistory,
                     Entry(t, statusLabel(action), "Current User", undefinedText)),
           !.items = items,
           !.acceptedAmt = acceptedAmt,
           !.deniedAmt = Max(totalAmt - acceptedAmt, 0)]

\* updatedClaims of handleClaimAction (every action but delete).
handleClaimAction(currentClaims, claimId, action, comment, itemCode, t) ==
    [i \in 1..Len(currentClaims) |->
        IF currentClaims[i].claimId # claimId THEN currentClaims[i]
        ELSE actOnClaim(currentClaims[i], action, comment, itemCode, t)]

\* ActionModal.handleSubmit refuses the submission (toast "Comment required").
commentMissing(selectedAction, comment) ==
    requiresComment(selectedAction) /\ ~TruthyText(trim(comment))

\* comment.trim() || undefined
submittedComment(comment) ==
    IF TruthyText(trim(comment)) THEN trim(comment) ELSE undefinedText

\* ------------------------------------------------------------------ inputs
\* What the field extractor may return for the documents of one upload.
Txt(c) == <<c>>

RawItem(code, amount, approvedAmt, reason, queryReason) ==
    [itemCode |-> code, procedure |-> "procedure", amount |-> amount,
     approvedAmt |-> approvedAmt, qty |-> <<1>>, reason |-> reason,
     queryReason |-> queryReason, approvalStatus |-> undefined]

\* A claim document: billed items, no adjudication.
RawClaimDoc(claimId, patientName, items) ==
    [claimId |-> claimId, patientName |-> patientName, dateOfService |-> <<0>>,
     totalAmt |-> <<5>>, acceptedAmt |-> << >>, deniedAmt |-> << >>,
     status |-> undefined, reason |-> undefinedText, queryReason |-> undefinedText,
     additionalInfoRequired |-> undefinedText, items |-> items]

\* A query/approval document: adjudication of the items.
RawQueryDoc(status, reason, queryReason, additionalInfoRequired, acceptedAmt, deniedAmt, items) ==
    [claimId |-> undefined, patientName |-> undefined, dateOfService |-> <<0>>,
     totalAmt |-> << >>, acceptedAmt |-> acceptedAmt, deniedAmt |-> deniedAmt,
     status |-> status, reason |-> reason, queryReason |-> queryReason,
     additionalInfoRequired |-> additionalInfoRequired, items |-> items]

\* <<claimId, patientName>> of the claim document; an absent patient name is
\* the validation failure of processFiles.
Headers == {<<"c1", "p1">>, <<"c2", "p1">>, <<"c1", "p2">>, <<undefined, undefined>>}

itemA == RawItem(Txt("A"), Num(2), Undef, undefinedText, undefinedText)

itemB == RawItem(Txt("B"), Num(1), Undef, undefinedText, undefinedText)

\* Document sets: claim-document items, the query document, the two file names.
DocSets ==
    { \* denial of the only item, totals in line with the items
      [items |-> <<itemA>>,
       query |-> RawQueryDoc("Denied", Txt("r"), undefinedText, undefinedText, <<0>>, <<2>>,
                    <<RawItem(Txt("A"), Undef, Num(0), Txt("r"), Txt("q"))>>),
       files |-> <<"claim.pdf", "query.pdf">>],
      \* approval of one of two billed items, the reason column still filled in
      [items |-> <<itemA, itemB>>,
       query |-> RawQueryDoc("Approved", undefinedText, undefinedText, undefinedText,
                    << >>, << >>,
                    <<RawItem(Txt("A"), Undef, Num(2), Txt("r"), undefinedText)>>),
       files |-> <<"claim.pdf", "query.pdf">>],
      \* provisional approval with an outstanding information request
      [items |-> <<itemA>>,
       query |-> RawQueryDoc("Approved", undefinedText, Txt("-"), <<" ", "i">>, <<2>>, << >>,
                    <<RawItem(Txt("A"), Undef, Num(0), Txt("-"), Txt("q"))>>),
       files |-> <<"claim.pdf", "query.pdf">>],
      \* a claim document that bills item A twice, a query document the extractor
      \* read nothing from; both files share a name
      [items |-> <<itemA, itemB, itemA>>,
       query |-> RawQueryDoc(undefined, undefinedText, undefinedText, undefinedText,
                    << >>, << >>, << >>),
       files |-> <<"scan.pdf", "scan.pdf">>] }

\* What a reviewer may type into the comment box of the action modal.
Comments == {<< >>, <<" ">>, <<"o", "k">>}

\* ------------------------------------------------------------ the program
\* A toast: its title, the patient name or claim id its text names, and the
\* verb of an "Action submitted" toast.
Toast(title, about, verb) == [title |-> title, about |-> about, verb |-> verb]

actionLabels(selectedAction) ==
    CASE selectedAction = "approve" -> "approved"
      [] selectedAction = "query" -> "queried"
      [] selectedAction = "deny" -> "denied"
      [] selectedAction = "sendToDoctor" -> "sent to doctor"
      [] selectedAction = "sendToMedicalRecords" -> "sent to medical records"
      [] selectedAction = "requestDocuments" -> "requested additional documents"

\* useState<Claim[]>([]): the collection is empty until a document set is
\* processed; no toast has been shown.
Init ==
    /\ claims = << >>
    /\ now = 1
    /\ toast = Toast("none", "", "")
    /\ last = [op |-> "none", before |-> << >>]
    /\ fin = << >>
    /\ fout = << >>

\* The result of the set processor for one header and document set: both
\* extractions, then processClaimAndQueryPDFs.
resultOf(header, docSet, t) ==
    processClaimAndQueryPDFs(
        extractDataWithOpenAI(RawClaimDoc(header[1], header[2], docSet.items), t),
        extractDataWithOpenAI(docSet.query, t),
        docSet.files[1], docSet.files[2], t)

\* How the extraction of an upload may fail: not at all, on the claim
\* document, on the query document (extractDataWithOpenAI throws).
Failures == {"none", "claim", "query"}

\* The error check with the patient name left unchecked.
uploadError_PatientNameUnchecked(header, failure) ==
    IF failure # "none" THEN "Failed to parse JSON response" ELSE ""

\* The message of the error the set processor throws, "" when it throws none:
\* Promise.all rejects when either extraction does; a claim document without
\* a patient name is refused.
uploadError(header, failure) ==
    IF failure # "none" THEN "Failed to parse JSON response"
    ELSE IF ~Truthy(header[2]) THEN "Claim PDF must contain a valid Patient Name"
    ELSE ""

\* PDFUploader.processFiles on one document set: the set processor, the merge
\* into the collection and onDataExtracted (setClaims).
processFilesFrom(currentClaims, header, docSet, failure) ==
    LET result == resultOf(header, docSet, now)
        error == uploadError(header, failure)
    IN  IF error # ""
        THEN /\ toast' = Toast(error, "", "")
             /\ UNCHANGED <<claims, now>>
        ELSE /\ claims' = updatedClaimsOf(currentClaims, result, now)
             /\ toast' = Toast(IF existingClaimIndexOf(currentClaims, result) # 0
                               THEN "Updated existing claim"
                               ELSE "Created new claim",
                               result.patientName, "")
             /\ now' = now + 1

\* An upload whose extraction no reviewer step interleaves with: currentClaims
\* is the collection on screen.
processFiles(header, docSet, failure) == processFilesFrom(claims, header, docSet, failure)

Upload ==
    /\ now < MaxTime
    /\ \E header \in Headers, docSet \in DocSets, failure \in Failures :
          processFiles(header, docSet, failure)
    /\ last' = [op |-> "processFiles", before |-> claims]
    /\ UNCHANGED <<fin, fout>>

\* ActionModal.handleSubmit on the claim at index c: the comment check, then
\* onSubmitAction = Index.handleClaimAction and setClaims.
handleSubmit(c, selectedAction, comment, itemCode) ==
    IF commentMissing(selectedAction, comment)
    THEN /\ toast' = Toast("Comment required", "", "")
         /\ UNCHANGED <<claims, now>>
    ELSE /\ claims' = handleClaimAction(claims, claims[c].claimId, selectedAction,
                          submittedComment(comment), itemCode, now)
         /\ toast' = Toast("Action submitted", claims[c].claimId,
                           actionLabels(selectedAction))
         /\ now' = now + 1

\* The item codes the modal can be opened on, and no item at all.
Targets(c) == {claims[c].items[i].itemCode : i \in 1..Len(claims[c].items)}
                  \cup {undefinedText}

Submit ==
    /\ now < MaxTime
    /\ \E c \in 1..Len(claims), selectedAction \in Actions, comment \in Comments :
          \E itemCode \in Targets(c) : handleSubmit(c, selectedAction, comment, itemCode)
    /\ last' = [op |-> "handleSubmit", before |-> claims]
    /\ UNCHANGED <<fin, fout>>

\* Index.handleDeleteClaim: every claim with that claimId leaves the collection.
handleDeleteClaim(claimId) ==
    /\ claims' = SelectSeq(claims, LAMBDA claim : claim.claimId # claimId)
    /\ UNCHANGED <<now, toast>>

Delete ==
    /\ \E c \in 1..Len(claims) : handleDeleteClaim(claims[c].claimId)
    /\ last' = [op |-> "handleDeleteClaim", before |-> claims]
    /\ UNCHANGED <<fin, fout>>

Next == Upload \/ Submit \/ Delete

Spec == Init /\ [][Next]_vars

\* ------------------------------------------- the claim merger on its own
FileNames == {"claim.pdf", "query.pdf", "scan.pdf"}

SeqsUpTo(S, n) == UNION {[1..k -> S] : k \in 0..n}

\* An existing claim holding the named documents, and the document set that
\* is merged into it.
InitDocMerge ==
    /\ claims = << >>
    /\ now = 1
    /\ toast = Toast("none", "", "")
    /\ last = [op |-> "none", before |-> << >>]
    /\ fin \in [existing : SeqsUpTo(FileNames, MaxDocs),
                docSet : {[docSet EXCEPT !.files = files] :
                             docSet \in DocSets, files \in FileNames \X FileNames}]
    /\ fout = << >>

\* The existing claim of InitDocMerge: a claim created from the document set,
\* holding the named documents.
existingClaimOf(input) ==
    [newClaimDataOf(resultOf(<<"c0", "p1">>, input.docSet, 0), 0)
        EXCEPT !.documents = [i \in 1..Len(input.existing) |-> Document(input.existing[i], 0)]]

\* The document set is merged into the claim, and then once more (a
\* re-upload of the same files): by mergeClaimData of PDFUploader, and file
\* by file by the document step of pdfExtractor.mergeClaimData.
MergeTwice ==
    /\ fout = << >>
    /\ LET existingClaim == existingClaimOf(fin)
           once == mergeClaimData(existingClaim,
                       newClaimDataOf(resultOf(<<"c1", "p1">>, fin.docSet, 1), 1))
           twice == mergeClaimData(once,
                       newClaimDataOf(resultOf(<<"c1", "p1">>, fin.docSet, 2), 2))
           oneByOne == addDocument(existingClaim, Document(fin.docSet.files[1], 1))
           twiceByOne == addDocument(oneByOne, Document(fin.docSet.files[1], 2))
       IN  fout' = [once |-> once, twice |-> twice,
                    oneByOne |-> oneByOne, twiceByOne |-> twiceByOne]
    /\ UNCHANGED <<claims, now, toast, last, fin>>

NextDocMerge == MergeTwice

SpecDocMerge == InitDocMerge /\ [][NextDocMerge]_vars

\* -------------------------------------------- the item merger on its own
\* An item as the item merger reads it.
MergerItem(code, amount, qty, approvedAmt, status, reason, queryReason) ==
    [itemCode |-> code, amount |-> amount, qty |-> qty, approvedAmt |-> approvedAmt,
     status |-> status, reason |-> reason, queryReason |-> queryReason]

\* Claim-document items: billed, not adjudicated; the quantity may be missing.
ClaimSideItems ==
    {MergerItem(code, aq[1], aq[2], 0, "Approved", << >>, << >>) :
        code \in {<<"A">>, <<"a", " ">>, <<" ">>}, aq \in {<<2, <<1>>>>, <<3, << >>>>}}

\* Query/approval items: adjudicated; code and quantity may be missing.
QuerySideItems ==
    {MergerItem(code, 5, qty, 0, "Denied", <<"r">>, << >>) :
        code \in {<<" ", "a">>, <<"B">>, <<" ">>, undefinedText}, qty \in {<<7>>, << >>}}

InitItemMerge ==
    /\ claims = << >>
    /\ now = 1
    /\ toast = Toast("none", "", "")
    /\ last = [op |-> "none", before |-> << >>]
    /\ fin \in [claimItems : SeqsUpTo(ClaimSideItems, MaxItems),
                queryItems : SeqsUpTo(QuerySideItems, MaxItems)]
    /\ fout = << >>

MergeItems ==
    /\ fout = << >>
    /\ fout' = <<mergeItemsFromSources(fin.claimItems, fin.queryItems)>>
    /\ UNCHANGED <<claims, now, toast, last, fin>>

NextItemMerge == MergeItems

SpecItemMerge == InitItemMerge /\ [][NextItemMerge]_vars

\* ------------------------------------- the currency normaliser on its own
\* Longest string handed to the currency normaliser when it is checked on
\* its own.
MaxChars == 3

\* The characters of a money field: digits, the decimal point, the sign, a
\* currency symbol, a thousands separator.
MoneyChars == {"0", "5", ".", "-", "$"}

\* What the extractor's JSON may hold in a money field: a number (also a
\* negative one, also one with a fraction), a string, nothing.
RawMoney ==
    {Num(n) : n \in {-1, 0, 42 * Pow10(FractionDigits), 15 * Pow10(FractionDigits - 1)}}
    \cup {Str(txt) : txt \in SeqsUpTo(MoneyChars, MaxChars)}
    \cup {Str(<<"$", "1", ",", "2", "3", "4", ".", "5", "0">>), Str(<<" ", "7", " ">>), Undef}

InitCurrency ==
    /\ claims = << >>
    /\ now = 1
    /\ toast = Toast("none", "", "")
    /\ last = [op |-> "none", before |-> << >>]
    /\ fin \in RawMoney
    /\ fout = << >>

Normalize ==
    /\ fout = << >>
    /\ fout' = <<normalizeCurrencyValue(fin)>>
    /\ UNCHANGED <<claims, now, toast, last, fin>>

NextCurrency == Normalize

SpecCurrency == InitCurrency /\ [][NextCurrency]_vars

\* --------------------------------- the overall status derivation on its own
\* The overall status the extractor may report for a query document.
ReportedStatuses ==
    {undefined, "Approved", "Partially Approved", "Denied", "Query Raised",
     "Additional Info Required"}

\* What the extractor may read from the "additional information required"
\* section, and as the query text.
InfoTexts == {undefinedText, << >>, <<"-">>, <<" ">>, <<"i">>, <<" ", "i">>}

\* A query document with one adjudicated item, for a claim document billing it.
statusDocSet(input) ==
    [items |-> <<itemA>>,
     query |-> RawQueryDoc(input.status, undefinedText, input.queryReason,
                  input.additionalInfoRequired, << >>, << >>,
                  <<RawItem(Txt("A"), Undef, Num(input.approvedAmt), undefinedText,
                            undefinedText)>>),
     files |-> <<"claim.pdf", "query.pdf">>]

InitStatus ==
    /\ claims = << >>
    /\ now = 1
    /\ toast = Toast("none", "", "")
    /\ last = [op |-> "none", before |-> << >>]
    /\ fin \in [status : ReportedStatuses, additionalInfoRequired : InfoTexts,
                queryReason : {undefinedText, <<"-">>, <<"q">>}, approvedAmt : {0, 2}]
    /\ fout = << >>

\* The claim processFiles creates from the document set.
DeriveStatus ==
    /\ fout = << >>
    /\ fout' = <<newClaimDataOf(resultOf(<<"c1", "p1">>, statusDocSet(fin), now), now)>>
    /\ UNCHANGED <<claims, now, toast, last, fin>>

NextStatus == DeriveStatus

SpecStatus == InitStatus /\ [][NextStatus]_vars

\* ------------------------------ pdfExtractor.mergeClaimData (one document)
\* The forEach over extractedData.items: an item of a new code is pushed.
RECURSIVE pushNewItems(_, _)
pushNewItems(items, newItems) ==
    IF newItems = << >> THEN items
    ELSE LET newItem == Head(newItems)
             existingItemIndex == findIndex(items, LAMBDA i : i.itemCode = newItem.itemCode)
         IN  pushNewItems(IF existingItemIndex = 0 THEN Append(items, newItem) ELSE items,
                          Tail(newItems))

\* The new claim of pdfExtractor.mergeClaimData.
exportedNewClaim(claimId, extractedData, document, t) ==
    [claimId |-> claimId,
     patientName |-> IF Truthy(extractedData.patientName) THEN extractedData.patientName
                     ELSE "Unknown Patient",
     dateOfService |-> IF extractedData.dateOfService # << >>
                       THEN extractedData.dateOfService[1] ELSE t,
     totalAmt |-> IF extractedData.totalAmt # << >> THEN extractedData.totalAmt[1] ELSE 0,
     acceptedAmt |-> IF extractedData.acceptedAmt # << >> THEN extractedData.acceptedAmt[1] ELSE 0,
     deniedAmt |-> IF extractedData.deniedAmt # << >> THEN extractedData.deniedAmt[1] ELSE 0,
     documents |-> <<document>>,
     items |-> extractedData.items,
     approvalStatus |-> extractedData.status,
     approvalReason |-> extractedData.reason,
     queryReason |-> OrText(extractedData.queryReason, extractedData.additionalInfoRequired),
     statusHistory |->
        <<Entry(t, IF Truthy(extractedData.status) THEN extractedData.status ELSE "Submitted",
                "System",
                OrText(extractedData.queryReason,
                       OrText(extractedData.additionalInfoRequired, extractedData.reason)))>>]

\* pdfExtractor.mergeClaimData: the collection it returns, and the collection
\* it was given as that collection is when it returns.  existingClaim is a
\* shallow copy: its items array is the array of the claim it was copied from
\* until the status branch assigns a new one, so the push of a new item
\* writes to the given claim when that branch was not taken.
exportedMergeClaimData(existingClaims, extractedData, document, t) ==
    LET claimId == extractedData.claimId
        existingClaimIndex == findIndex(existingClaims, LAMBDA c : c.claimId = claimId)
    IN  IF ~Truthy(claimId)
        THEN [returned |-> Append(existingClaims,
                              exportedNewClaim("CLM-" \o ToString(Len(existingClaims) + 1),
                                               extractedData, document, t)),
              given |-> existingClaims]
        ELSE IF existingClaimIndex = 0
        THEN [returned |-> Append(existingClaims,
                              exportedNewClaim(claimId, extractedData, document, t)),
              given |-> existingClaims]
        ELSE LET original == existingClaims[existingClaimIndex]
                 newEntry == Entry(t, extractedData.status, "System", extractedData.reason)
                 statusAdded ==
                    /\ Truthy(extractedData.status)
                    /\ \/ original.statusHistory = << >>
                       \/ original.statusHistory[Len(original.statusHistory)].label
                             # extractedData.status
                 mapped == [k \in 1..Len(original.items) |->
                              [original.items[k] EXCEPT
                                 !.statusHistory =
                                    Append(@, Entry(t, extractedData.status, "System",
                                                    undefinedText)),
                                 !.reasonHistory =
                                    IF TruthyText(extractedData.reason)
                                    THEN Append(@, newEntry) ELSE @]]
                 existingClaim ==
                    [original EXCEPT
                       !.documents = addDocument(original, document).documents,
                       !.statusHistory = IF statusAdded THEN Append(@, newEntry) ELSE @,
                       !.items = pushNewItems(IF statusAdded THEN mapped ELSE original.items,
                                              extractedData.items),
                       !.totalAmt = IF extractedData.totalAmt # << >>
                                    THEN extractedData.totalAmt[1] ELSE @,
                       !.acceptedAmt = IF extractedData.acceptedAmt # << >>
                                       THEN extractedData.acceptedAmt[1] ELSE @,
                       !.deniedAmt = IF extractedData.deniedAmt # << >>
                                     THEN extractedData.deniedAmt[1] ELSE @]
             IN  [returned |-> [existingClaims EXCEPT ![existingClaimIndex] = existingClaim],
                  given |-> [existingClaims EXCEPT
                               ![existingClaimIndex].items =
                                  IF statusAdded THEN @
                                  ELSE pushNewItems(@, extractedData.items)]]

\* The extraction of one document of a set: its claim document or its query
\* document, with the header the extractor read from it.
singleDocument(header, docSet, role) ==
    IF role = "claim" THEN RawClaimDoc(header[1], header[2], docSet.items)
    ELSE [docSet.query EXCEPT !.claimId = header[1], !.patientName = header[2]]

\* A collection that is empty or holds the claim of one document set, and
\* one extracted document to merge into it.
InitExportedMerge ==
    /\ claims = << >>
    /\ now = 1
    /\ toast = Toast("none", "", "")
    /\ last = [op |-> "none", before |-> << >>]
    /\ fin \in [existingClaims :
                   {<< >>} \cup {<<newClaimDataOf(resultOf(<<"c1", "p1">>, docSet, 0), 0)>> :
                                    docSet \in DocSets},
                header : Headers, docSet : DocSets, role : {"claim", "query"}]
    /\ fout = << >>

ExportedMerge ==
    /\ fout = << >>
    /\ fout' = exportedMergeClaimData(fin.existingClaims,
                   extractDataWithOpenAI(singleDocument(fin.header, fin.docSet, fin.role), now),
                   Document(IF fin.role = "claim" THEN fin.docSet.files[1]
                            ELSE fin.docSet.files[2], now),
                   now)
    /\ UNCHANGED <<claims, now, toast, last, fin>>

NextExportedMerge == ExportedMerge

SpecExportedMerge == InitExportedMerge /\ [][NextExportedMerge]_vars

\* ------------------------------------------ an upload with its extraction in flight
\* processFiles is async: currentClaims is the prop of the render in which the
\* button was pressed, the extraction is awaited, and the reviewer may act on
\* the collection before it resolves. fin holds the upload in flight (<< >>
\* when there is none: the button is disabled while isProcessing). The
\* collection loaded at start-up is empty or holds the claim of one earlier
\* upload; the clock leaves room for one reviewer action before the upload
\* completes.
LoadedCollections ==
    {<< >>} \cup {updatedClaimsOf(<< >>, resultOf(header, docSet, 0), 0) :
                     header \in {h \in Headers : Truthy(h[2])}, docSet \in DocSets}

InitInFlight ==
    /\ claims \in LoadedCollections
    /\ now = MaxTime - 1
    /\ toast = Toast("none", "", "")
    /\ last = [op |-> "none", before |-> << >>]
    /\ fin = << >>
    /\ fout = << >>

\* The reviewer presses "Process": the extraction starts.
StartProcessFiles ==
    /\ fin = << >>
    /\ now < MaxTime
    /\ \E header \in Headers, docSet \in DocSets :
          fin' = [currentClaims |-> claims, header |-> header, docSet |-> docSet]
    /\ last' = [op |-> "startProcessFiles", before |-> claims]
    /\ UNCHANGED <<claims, now, toast, fout>>

\* The extraction resolves or rejects: the rest of processFiles runs on the
\* currentClaims of its closure, and onDataExtracted installs the outcome.
FinishProcessFiles ==
    /\ fin # << >>
    /\ \E failure \in Failures :
          processFilesFrom(fin.currentClaims, fin.header, fin.docSet, failure)
    /\ last' = [op |-> "processFiles", before |-> claims]
    /\ fin' = << >>
    /\ UNCHANGED fout

NextInFlight == StartProcessFiles \/ FinishProcessFiles \/ Submit \/ Delete

SpecInFlight == InitInFlight /\ [][NextInFlight]_vars

\* ------------------------------------------ uploads saved to the claims table
\* claimToDbRow, with the rows of claim_items kept in the claim's row.
claimToDbRow(claim) ==
    [claim_id |-> claim.claimId,
     patient_name |-> claim.patientName,
     total_amt |-> claim.totalAmt,
     accepted_amt |-> claim.acceptedAmt,
     denied_amt |-> claim.deniedAmt,
     status_history |-> claim.statusHistory,
     item_codes |-> [k \in 1..Len(claim.items) |-> claim.items[k].itemCode]]

\* saveClaim: the row of that claim_id is updated, or a row is inserted.
saveClaim(table, claim) ==
    LET existingClaim == findIndex(table, LAMBDA row : row.claim_id = claim.claimId)
    IN  IF existingClaim # 0
        THEN [table EXCEPT ![existingClaim] = claimToDbRow(claim)]
        ELSE Append(table, claimToDbRow(claim))

\* saveClaims: every claim of the collection is saved.
RECURSIVE saveClaims(_, _)
saveClaims(table, collection) ==
    IF collection = << >> THEN table
    ELSE saveClaims(saveClaim(table, Head(collection)), Tail(collection))

\* The document sets come with claim ids that tell patients apart: saves of
\* two claims under one claim_id would race in Promise.all.
SavedHeaders == Headers \ {<<"c1", "p2">>}

\* fout is the claims table.
InitSaved ==
    /\ claims = << >>
    /\ now = 1
    /\ toast = Toast("none", "", "")
    /\ last = [op |-> "none", before |-> << >>]
    /\ fin = << >>
    /\ fout = << >>

\* processFiles, and on success handlePDFDataExtracted with Supabase
\* configured and every save succeeding.
UploadAndSave ==
    /\ now < MaxTime
    /\ \E header \in SavedHeaders, docSet \in DocSets, failure \in Failures :
          /\ processFiles(header, docSet, failure)
          /\ fout' = IF uploadError(header, failure) # "" THEN fout
                     ELSE saveClaims(fout, claims')
    /\ last' = [op |-> "processFiles", before |-> claims]
    /\ UNCHANGED fin

NextSaved == UploadAndSave

SpecSaved == InitSaved /\ [][NextSaved]_vars

\* ------------------------------------------ the item resolution on its own
\* What the extractor may read as a reason or a query text.
ReasonTexts == {undefinedText, <<"-">>, <<" ">>, <<"x">>}

\* A document set with one billed item and its adjudication.
resolveDocSet(input) ==
    [items |-> <<itemA>>,
     query |-> RawQueryDoc(undefined, input.claimReason, input.claimQueryReason,
                  input.additionalInfoRequired, << >>, << >>,
                  <<RawItem(Txt("A"), Undef, Num(input.approvedAmt), input.reason,
                            input.queryReason)>>),
     files |-> <<"claim.pdf", "query.pdf">>]

InitResolve ==
    /\ claims = << >>
    /\ now = 1
    /\ toast = Toast("none", "", "")
    /\ last = [op |-> "none", before |-> << >>]
    /\ fin \in [approvedAmt : {0, 2}, reason : ReasonTexts, queryReason : ReasonTexts,
                claimReason : {undefinedText, <<"-">>, <<"y">>},
                claimQueryReason : {undefinedText, <<"-">>, <<"z">>},
                additionalInfoRequired : {undefinedText, <<"-">>, <<"i">>}]
    /\ fout = << >>

\* The item as the query document's extraction resolves it, and as the set
\* processor returns it.
ResolveItem ==
    /\ fout = << >>
    /\ fout' = [extracted |-> extractDataWithOpenAI(resolveDocSet(fin).query, now).items[1],
                merged |-> resultOf(<<"c1", "p1">>, resolveDocSet(fin), now).items[1]]
    /\ UNCHANGED <<claims, now, toast, last, fin>>

NextResolve == ResolveItem

SpecResolve == InitResolve /\ [][NextResolve]_vars

\* -------------------------------------------------- properties of the claims
\* The items of every claim of the collection, as <<claim index, item index>>.
ItemsOf(c) == 1..Len(claims[c].items)

\* C1: in every reachable state, an item whose approvedAmt is greater than 0
\* has status "Approved" and empty reason and queryReason.
C1_ApprovedAmtImpliesApproved ==
    \A c \in 1..Len(claims) : \A k \in ItemsOf(c) :
        LET item == claims[c].items[k]
        IN  item.approvedAmt > 0 =>
                /\ item.status = "Approved"
                /\ item.reason = << >>
                /\ item.queryReason = << >>

\* C2: in every reachable state, an item whose approvedAmt is 0 and whose
\* reason is non-empty has status "Denied".
C2_ZeroWithReasonIsDenied ==
    \A c \in 1..Len(claims) : \A k \in ItemsOf(c) :
        LET item == claims[c].items[k]
        IN  (item.approvedAmt = 0 /\ TruthyText(item.reason)) => item.status = "Denied"

\* A denied item with a reason, in a claim a reviewer action has just been
\* applied to.
C2_Witness ==
    /\ last.op = "handleSubmit"
    /\ toast.title = "Action submitted"
    /\ \E c \in 1..Len(claims) : \E k \in ItemsOf(c) :
          LET item == claims[c].items[k]
          IN  /\ claims[c].claimId = toast.about
              /\ item.approvedAmt = 0
              /\ TruthyText(item.reason)
              /\ item.status = "Denied"
              /\ Len(item.statusHistory) > 1

\* C3: in every reachable state, a claim's totalAmt is the sum of the amounts
\* of its items.
C3_TotalIsSumOfAmounts ==
    \A c \in 1..Len(claims) :
        claims[c].totalAmt = SumSeq(claims[c].items, LAMBDA item : item.amount)

\* C4: in every reachable state, a claim's deniedAmt is
\* max(totalAmt - acceptedAmt, 0).
C4_DeniedIsTotalMinusAccepted ==
    \A c \in 1..Len(claims) :
        claims[c].deniedAmt = Max(claims[c].totalAmt - claims[c].acceptedAmt, 0)

\* C5: in every reachable state, a claim's acceptedAmt is the sum of the
\* approvedAmt of its items.
C5_AcceptedIsSumOfApproved ==
    \A c \in 1..Len(claims) :
        claims[c].acceptedAmt = SumSeq(claims[c].items, LAMBDA item : item.approvedAmt)

\* The indices of the claims of a patient.
ClaimsOfPatient(cs, patientName) == {i \in 1..Len(cs) : cs[i].patientName = patientName}

\* C6: after a document set is processed whose patient name is that of a claim
\* of the collection, whatever claim id it carries, the collection has as many
\* claims as before, exactly one of them is that patient's, and it stands
\* where the patient's claim stood: the existing claim was updated and no
\* second claim was created.
C6_MergeKeyedByPatientName ==
    ( /\ last.op = "processFiles"
      /\ Truthy(toast.about)
      /\ ClaimsOfPatient(last.before, toast.about) # {} )
    => /\ Len(claims) = Len(last.before)
       /\ \E i \in 1..Len(claims) :
             /\ ClaimsOfPatient(claims, toast.about) = {i}
             /\ ClaimsOfPatient(last.before, toast.about) = {i}
             /\ claims[i] # last.before[i]
             /\ \A j \in 1..Len(claims) : j # i => claims[j] = last.before[j]

\* A document set with another claim id has just been merged into the claim of
\* its patient.
C6_Witness ==
    /\ last.op = "processFiles"
    /\ Len(claims) = Len(last.before)
    /\ \E i \in 1..Len(claims) :
          /\ last.before[i].patientName = toast.about
          /\ claims[i].patientName = toast.about
          /\ claims[i].claimId # last.before[i].claimId
          /\ Len(claims[i].statusHistory) > Len(last.before[i].statusHistory)

\* What a reviewer leaves in the comment box when there is no comment.
BlankComments == {comment \in Comments : trim(comment) = << >>}

\* C8: a query, deny, sendToDoctor, sendToMedicalRecords or requestDocuments
\* action submitted with an empty or whitespace-only comment is rejected and
\* leaves the collection identical: a submission step that is not such a
\* rejection is no submission of one of these actions with a blank comment.
C8_BlankCommentRejected ==
    [][ (/\ last'.op = "handleSubmit"
         /\ ~(claims' = claims /\ toast'.title = "Comment required")) =>
          \A c \in 1..Len(claims), comment \in BlankComments :
             \A selectedAction \in {"query", "deny", "sendToDoctor", "sendToMedicalRecords",
                                    "requestDocuments"} :
                \A itemCode \in Targets(c) :
                   ~handleSubmit(c, selectedAction, comment, itemCode) ]_vars

\* A submission has just been rejected for its missing comment, with claims in
\* the collection.
C8_Witness ==
    /\ last.op = "handleSubmit"
    /\ toast.title = "Comment required"
    /\ claims # << >>
    /\ last.before = claims

\* C9: an item-scoped approve on an item whose approvedAmt was 0 sets the
\* item's approvedAmt to its amount a, raises the claim's acceptedAmt by a and
\* lowers its deniedAmt by a, floored at 0.
C9_ApproveMovesAmount ==
    [][ last'.op = "handleSubmit" =>
          \A c \in 1..Len(claims), comment \in Comments : \A k \in ItemsOf(c) :
             LET item == claims[c].items[k]
             IN  ( /\ item.approvedAmt = 0
                   /\ handleSubmit(c, "approve", comment, item.itemCode) )
                 => /\ claims'[c].items[k].approvedAmt = item.amount
                    /\ claims'[c].acceptedAmt = claims[c].acceptedAmt + item.amount
                    /\ claims'[c].deniedAmt = Max(claims[c].deniedAmt - item.amount, 0) ]_vars

\* C7: merging a document set into an existing claim twice leaves the same
\* documents as merging it once: the second merge adds no document whose
\* name the claim already holds.
C7_DocumentMergeIdempotent ==
    fout # << >> =>
        /\ fout.twice.documents = fout.once.documents
        /\ fout.twiceByOne.documents = fout.oneByOne.documents

\* The first merge added a document to the claim, the second none.
C7_Witness ==
    /\ fout # << >>
    /\ Len(fin.existing) > 0
    /\ Len(fout.once.documents) > Len(fin.existing)
    /\ Len(fout.oneByOne.documents) > Len(fin.existing)
    /\ fout.twice.documents = fout.once.documents

\* Item codes that are equal case-insensitively after trimming.
sameCode(a, b) ==
    /\ a # undefinedText
    /\ b # undefinedText
    /\ toUpperCase(trim(a)) = toUpperCase(trim(b))

\* C10 as stated: with a non-empty query/approval collection the output has
\* one entry per query/approval entry, carrying its item code and status
\* fields and the amount and qty of the claim-document entry whose code matches
\* case-insensitively after trimming, or the query/approval entry's own amount
\* and qty when no claim entry matches; with an empty query/approval
\* collection the claim-document collection is returned unchanged.
C10_ItemMerger ==
    fout # << >> =>
        LET out == fout[1]
            claimItems == fin.claimItems
            queryItems == fin.queryItems
        IN  IF Len(queryItems) = 0 THEN out = claimItems
            ELSE /\ Len(out) = Len(queryItems)
                 /\ \A i \in 1..Len(queryItems) :
                       LET matches == {j \in 1..Len(claimItems) :
                                          sameCode(claimItems[j].itemCode,
                                                   queryItems[i].itemCode)}
                       IN  /\ out[i].itemCode = queryItems[i].itemCode
                           /\ out[i].approvedAmt = queryItems[i].approvedAmt
                           /\ out[i].status = queryItems[i].status
                           /\ out[i].reason = queryItems[i].reason
                           /\ out[i].queryReason = queryItems[i].queryReason
                           /\ IF matches # {}
                              THEN \E j \in matches :
                                      /\ out[i].amount = claimItems[j].amount
                                      /\ out[i].qty = claimItems[j].qty
                              ELSE /\ out[i].amount = queryItems[i].amount
                                   /\ out[i].qty = queryItems[i].qty

\* C10, amended: as C10, where a code that is empty after trimming matches no
\* claim entry, the last matching claim entry is the one taken, and the qty is
\* that entry's when it has one, otherwise the query/approval entry's own, and
\* 0 when that has none either.
C10_ItemMergerQtyFallback ==
    fout # << >> =>
        LET out == fout[1]
            claimItems == fin.claimItems
            queryItems == fin.queryItems
        IN  IF Len(queryItems) = 0 THEN out = claimItems
            ELSE /\ Len(out) = Len(queryItems)
                 /\ \A i \in 1..Len(queryItems) :
                       LET matches == {j \in 1..Len(claimItems) :
                                          /\ sameCode(claimItems[j].itemCode,
                                                      queryItems[i].itemCode)
                                          /\ trim(queryItems[i].itemCode) # << >>}
                           ownQty == IF queryItems[i].qty # << >> THEN queryItems[i].qty
                                     ELSE <<0>>
                       IN  /\ out[i].itemCode = queryItems[i].itemCode
                           /\ out[i].approvedAmt = queryItems[i].approvedAmt
                           /\ out[i].status = queryItems[i].status
                           /\ out[i].reason = queryItems[i].reason
                           /\ out[i].queryReason = queryItems[i].queryReason
                           /\ IF matches # {}
                              THEN LET j == CHOOSE j \in matches : \A k \in matches : k <= j
                                   IN  /\ out[i].amount = claimItems[j].amount
                                       /\ out[i].qty = IF claimItems[j].qty # << >>
                                                       THEN claimItems[j].qty ELSE ownQty
                              ELSE /\ out[i].amount = queryItems[i].amount
                                   /\ out[i].qty = ownQty

\* The merger has given a query/approval entry the amount and qty of the
\* claim entry of the same code, written in another case and with spaces.
C10_Witness ==
    /\ fout # << >>
    /\ Len(fin.queryItems) > 0
    /\ \E j \in 1..Len(fin.claimItems) :
          /\ fin.claimItems[j].itemCode # fin.queryItems[1].itemCode
          /\ sameCode(fin.claimItems[j].itemCode, fin.queryItems[1].itemCode)
          /\ fin.claimItems[j].qty # << >>
          /\ fout[1][1].amount = fin.claimItems[j].amount
          /\ fout[1][1].qty = fin.claimItems[j].qty
          /\ fout[1][1].status = "Denied"

\* C11: no item that is present only in the claim-document collection, and
\* absent from the query/approval collection, is dropped from the merged
\* output.
C11_NoClaimItemDropped ==
    fout # << >> =>
        \A j \in 1..Len(fin.claimItems) :
            (~\E i \in 1..Len(fin.queryItems) :
                 sameCode(fin.claimItems[j].itemCode, fin.queryItems[i].itemCode))
            => \E k \in 1..Len(fout[1]) : fout[1][k].itemCode = fin.claimItems[j].itemCode

\* C12: an upload is all-or-nothing: when the extraction of a document of the
\* set fails, or the claim document yields no patient name, the upload ends
\* in an error and the collection is the one before the upload.
C12_UploadAllOrNothing ==
    [][ last'.op = "processFiles" =>
          \A header \in Headers, failure \in Failures, docSet \in DocSets :
             ( /\ failure # "none" \/ ~Truthy(header[2])
               /\ processFiles(header, docSet, failure) )
             => /\ claims' = claims
                /\ toast'.title \notin {"Updated existing claim", "Created new claim"}
                /\ toast'.about = "" ]_vars

\* An upload whose extraction failed has just ended, with claims in the
\* collection.
C12_Witness ==
    /\ last.op = "processFiles"
    /\ toast.title = "Failed to parse JSON response"
    /\ claims # << >>
    /\ last.before = claims

\* The characters of a money string that are a digit, "." or "-".
moneyText(txt) ==
    SelectSeq(txt, LAMBDA c : c \in {"0", "1", "2", "3", "4", "5", "6", "7", "8", "9", ".", "-"})

unsignedText(c) == IF c # << >> /\ c[1] = "-" THEN Tail(c) ELSE c

\* The text is a decimal literal: an optional sign, digits with at most one
\* decimal point, at least one digit.
isDecimalLiteral(c) ==
    LET body == unsignedText(c)
    IN  /\ \A i \in 1..Len(body) : body[i] \in Digits \cup {"."}
        /\ Cardinality({i \in 1..Len(body) : body[i] = "."}) <= 1
        /\ \E i \in 1..Len(body) : body[i] \in Digits

\* The decimal a decimal literal denotes.
literalValue(c) ==
    LET body == unsignedText(c)
        dots == {i \in 1..Len(body) : body[i] = "."}
        places == IF dots = {} THEN 0 ELSE Len(body) - (CHOOSE i \in dots : TRUE)
        digits == SelectSeq(body, LAMBDA ch : ch \in Digits)
    IN  (IF body = c THEN 1 ELSE -1) *
            ((digitsValue(digits) * Pow10(FractionDigits)) \div Pow10(places))

\* The text begins with a decimal literal.
beginsWithNumber(c) ==
    LET body == unsignedText(c)
    IN  /\ body # << >>
        /\ \/ body[1] \in Digits
           \/ body[1] = "." /\ Len(body) >= 2 /\ body[2] \in Digits

\* C13: currency normalisation maps a number to itself, a string to the
\* decimal read after every character other than a digit, "." and "-" is
\* removed, and what cannot be read, or is absent, to 0; "$1,234.50" gives
\* 1234.5, "-" gives 0, an absent value 0, 42 gives 42; there is always a
\* result.
C13_CurrencyNormalization ==
    fout # << >> =>
        LET out == fout[1]
        IN  /\ out \in Int
            /\ fin.t = "number" => out = fin.v
            /\ fin.t = "undefined" => out = 0
            /\ fin.t = "string" =>
                  LET c == moneyText(fin.v)
                  IN  /\ isDecimalLiteral(c) => out = literalValue(c)
                      /\ ~beginsWithNumber(c) => out = 0
            /\ fin = Str(<<"$", "1", ",", "2", "3", "4", ".", "5", "0">>) => out = 12345 * Pow10(FractionDigits - 1)
            /\ fin = Str(<<"-">>) => out = 0
            /\ fin = Undef => out = 0
            /\ fin = Num(42 * Pow10(FractionDigits)) => out = 42 * Pow10(FractionDigits)

\* "$1,234.50" has been normalised to 1234.5.
C13_Witness ==
    /\ fout # << >>
    /\ fin = Str(<<"$", "1", ",", "2", "3", "4", ".", "5", "0">>)
    /\ fout[1] = 12345 * Pow10(FractionDigits - 1)

\* C14: for every input (a number, a string, an absent value) the currency
\* normaliser's output is non-negative.
C14_NormalizedNonNegative ==
    fout # << >> => fout[1] >= 0

\* C15: when a document set is merged into an existing claim, the claim's
\* statusHistory receives a new entry only if the newly resolved overall
\* status differs from the label of its most recent entry: a merge never puts
\* an entry after one of the same label.
C15_NoRepeatedClaimStatus ==
    (last.op = "processFiles" /\ Len(claims) = Len(last.before)) =>
          \A c \in 1..Len(claims) :
             LET old == last.before[c].statusHistory
                 new == claims[c].statusHistory
             IN  (old # << >> /\ Len(new) > Len(old)) =>
                    new[Len(old) + 1].label # old[Len(old)].label

\* C16: in every reachable state the items of each claim are unique by
\* itemCode.
C16_ItemsUniqueByCode ==
    \A c \in 1..Len(claims) : \A j, k \in ItemsOf(c) :
        claims[c].items[j].itemCode = claims[c].items[k].itemCode => j = k

\* C17: in every reachable state the documents of each claim are unique by
\* name, also when two files of one uploaded set share a name.
C17_DocumentsUniqueByName ==
    \A c \in 1..Len(claims) : \A j, k \in 1..Len(claims[c].documents) :
        claims[c].documents[j].name = claims[c].documents[k].name => j = k

\* C18: whenever the query document's additionalInfoRequired is non-empty
\* and not the sentinel "-", the approvalStatus of the resulting claim is
\* "Query Raised" or "Additional Info Required", whatever overall status the
\* extractor reported and whatever the item table shows.
C18_AdditionalInfoForcesQuery ==
    ( /\ fout # << >>
      /\ fin.additionalInfoRequired # undefinedText
      /\ trim(fin.additionalInfoRequired) \notin {<< >>, <<"-">>} )
    => fout[1].approvalStatus \in {"Query Raised", "Additional Info Required"}

IsPrefix(a, b) == Len(a) <= Len(b) /\ SubSeq(b, 1, Len(a)) = a

\* C19: timelines are append-only: for every claim and every item that exists
\* before and after a merge or a reviewer action, its statusHistory and its
\* reasonHistory before the operation are a prefix of those after it.
C19_TimelinesAppendOnly ==
    last.op \in {"processFiles", "handleSubmit"} =>
        /\ Len(last.before) <= Len(claims)
        /\ \A c \in 1..Len(last.before) :
              LET old == last.before[c]
                  new == claims[c]
              IN  /\ IsPrefix(old.statusHistory, new.statusHistory)
                  /\ Len(old.items) <= Len(new.items)
                  /\ \A k \in 1..Len(old.items) :
                        /\ new.items[k].itemCode = old.items[k].itemCode
                        /\ IsPrefix(old.items[k].statusHistory, new.items[k].statusHistory)
                        /\ IsPrefix(old.items[k].reasonHistory, new.items[k].reasonHistory)

\* A merge has just lengthened the timelines of an item that a reviewer had
\* acted on, and those of its claim.
C19_Witness ==
    /\ last.op = "processFiles"
    /\ \E c \in 1..Len(last.before) : \E k \in 1..Len(last.before[c].items) :
          LET old == last.before[c].items[k]
              new == claims[c].items[k]
          IN  /\ \E e \in 1..Len(old.statusHistory) : old.statusHistory[e].user = "Current User"
              /\ old.reasonHistory # << >>
              /\ Len(new.statusHistory) > Len(old.statusHistory)
              /\ Len(new.reasonHistory) > Len(old.reasonHistory)
              /\ Len(claims[c].statusHistory) > Len(last.before[c].statusHistory)

Chronological(history) ==
    \A e \in 1..(Len(history) - 1) : history[e].date <= history[e + 1].date

\* C20: in every reachable state every statusHistory and reasonHistory of a
\* claim or an item is chronologically ordered, oldest first.
C20_TimelinesChronological ==
    \A c \in 1..Len(claims) :
        /\ Chronological(claims[c].statusHistory)
        /\ \A k \in ItemsOf(c) :
              /\ Chronological(claims[c].items[k].statusHistory)
              /\ Chronological(claims[c].items[k].reasonHistory)

\* The item codes of a claim.
ItemCodes(claim) == {claim.items[k].itemCode : k \in 1..Len(claim.items)}

\* C21: items are never deleted except with their claim: every itemCode a
\* claim holds before a merge or a reviewer action is held by it after the
\* operation.
C21_ItemCodesOnlyGrow ==
    last.op \in {"processFiles", "handleSubmit"} =>
        /\ Len(last.before) <= Len(claims)
        /\ \A c \in 1..Len(last.before) :
              /\ claims[c].patientName = last.before[c].patientName
              /\ ItemCodes(last.before[c]) \subseteq ItemCodes(claims[c])

\* A merge has just added an item code to a claim and kept one that the new
\* document set does not adjudicate.
C21_Witness ==
    /\ last.op = "processFiles"
    /\ toast.title = "Updated existing claim"
    /\ \E c \in 1..Len(last.before) :
          /\ ItemCodes(last.before[c]) # {}
          /\ ItemCodes(last.before[c]) # ItemCodes(claims[c])
          /\ ItemCodes(last.before[c]) \subseteq ItemCodes(claims[c])

\* C22: the claim-merge functions are pure: the collection they are given,
\* each claim in it and each claim's items and documents are unmodified
\* when they return, also when a new item code is added to an existing claim.
C22_MergeLeavesInputUnmodified ==
    fout # << >> => fout.given = fin.existingClaims

\* A text that is present, not blank and not the sentinel "-".
Given(t) == t # undefinedText /\ trim(t) \notin {<< >>, <<"-">>}

\* C23: an item with approvedAmt 0, no reason at item level and none at claim
\* level (each empty or "-"), and a query text at item level or at claim
\* level (the claim's queryReason, or additionalInfoRequired as fallback)
\* resolves to status "Query Raised".
C23_QueryRaisedRule ==
    ( /\ fout # << >>
      /\ fin.approvedAmt = 0
      /\ ~Given(fin.reason)
      /\ ~Given(fin.claimReason)
      /\ \/ Given(fin.queryReason)
         \/ Given(fin.claimQueryReason)
         \/ Given(fin.additionalInfoRequired) )
    => /\ fout.extracted.status = "Query Raised"
       /\ fout.merged.status = "Query Raised"

\* The reason history entry the spec describes for a resolved item: none
\* when neither text is present, else the status with the reason, or with
\* the query reason when there is no reason.
describedEntry(item) ==
    IF item.reason = << >> /\ item.queryReason = << >> THEN << >>
    ELSE <<[label |-> item.status,
            comment |-> IF item.reason # << >> THEN item.reason ELSE item.queryReason]>>

entryText(history) ==
    [k \in 1..Len(history) |-> [label |-> history[k].label, comment |-> history[k].comment]]

\* C24: on item resolution a reasonHistory entry is created if and only if
\* the resolved reason or queryReason is non-empty; its label is the resolved
\* status and its comment is the reason when a reason is present, and the
\* queryReason only when the reason is empty.
C24_ReasonEntryOnResolution ==
    fout # << >> =>
        /\ entryText(fout.extracted.reasonHistory) = describedEntry(fout.extracted)
        /\ Given(fin.additionalInfoRequired) =>
              LET history == entryText(fout.merged.reasonHistory)
                  appended == describedEntry(fout.merged)
              IN  /\ Len(history) >= Len(appended)
                  /\ SubSeq(history, Len(history) - Len(appended) + 1, Len(history)) = appended

\* The last step was an accepted submission of one of the given actions.
Submitted(actions) ==
    /\ last.op = "handleSubmit"
    /\ toast.title = "Action submitted"
    /\ toast.verb \in {actionLabels(action) : action \in actions}
    /\ Len(claims) = Len(last.before)

submittedAction == CHOOSE action \in Actions : actionLabels(action) = toast.verb

\* The item is one the submission was aimed at.
targeted(item, itemCode) == itemCode = undefinedText \/ item.itemCode = itemCode

\* history is earlier with exactly one more entry, of that label.
OneMore(history, earlier, label) ==
    /\ Len(history) = Len(earlier) + 1
    /\ SubSeq(history, 1, Len(earlier)) = earlier
    /\ history[Len(history)].label = label

AllTargets ==
    UNION {ItemCodes(last.before[c]) : c \in 1..Len(last.before)} \cup {undefinedText}

C26_RemergeDuplicatesNothing ==
    fout # << >> =>
        /\ Len(fout.twice.items) = Len(fout.once.items)
        /\ \A k \in 1..Len(fout.once.items) :
              /\ Len(fout.twice.items[k].statusHistory)
                    = Len(fout.once.items[k].statusHistory)
              /\ Len(fout.twice.items[k].reasonHistory)
                    = Len(fout.once.items[k].reasonHistory)

\* The last step installed the outcome of an upload.
Installed ==
    /\ last.op = "processFiles"
    /\ toast.title \in {"Updated existing claim", "Created new claim"}

Patients(collection) == {collection[c].patientName : c \in 1..Len(collection)}

Entries(history) == {history[k] : k \in 1..Len(history)}

ReviewerEntries(history) == {entry \in Entries(history) : entry.user = "Current User"}

\* C27: no reviewer mutation is lost to an upload: if a reviewer action or a
\* claim delete is applied to the collection while an upload's extraction is
\* in flight, the collection installed when that upload completes still
\* reflects it (the action's history entries and amounts are present, the
\* deleted claim stays absent).
C27_NoMutationLostToUpload ==
    Installed =>
        /\ \A c \in 1..Len(last.before) :
              \E d \in 1..Len(claims) :
                 /\ claims[d].patientName = last.before[c].patientName
                 /\ ReviewerEntries(last.before[c].statusHistory)
                       \subseteq Entries(claims[d].statusHistory)
                 /\ claims[d].patientName # toast.about => claims[d] = last.before[c]
        /\ Patients(claims) \subseteq Patients(last.before) \cup {toast.about}

\* The positions at which the collection differs from the one before.
Changed == {c \in 1..Len(claims) : claims[c] # last.before[c]}

\* C28: a reviewer action or delete addressed to one claim changes or removes
\* exactly that claim and leaves every other claim of the collection
\* unchanged, also when two claims of different patients carry the same
\* claimId.
C28_ExactlyOneClaimAffected ==
    /\ (last.op = "handleSubmit" /\ toast.title = "Action submitted") =>
          /\ Len(claims) = Len(last.before)
          /\ Cardinality(Changed) = 1
    /\ last.op = "handleDeleteClaim" =>
          \E c \in 1..Len(last.before) :
             claims = SubSeq(last.before, 1, c - 1)
                         \o SubSeq(last.before, c + 1, Len(last.before))

\* C29: after any sequence of uploads each followed by a successful save of
\* the resulting collection, the persistence store holds exactly the claims
\* of the in-memory collection; in particular, after a merge that replaces an
\* existing claim's claimId (same patientName, different claimId) the store
\* holds one claim for that patient and no claim under the old claimId.
C29_StoreHoldsTheCollection ==
    Entries(fout) = {claimToDbRow(claims[c]) : c \in 1..Len(claims)}

\* The billed fields of an item, which no action writes.
billed(item) ==
    [amount |-> item.amount, qty |-> item.qty, itemCode |-> item.itemCode,
     procedure |-> item.procedure]

=============================================================================
